---- MODULE Spec2Model ----
(***************************************************************************)
(* Model of the review pipeline core of git-llm-reviewer:                  *)
(*   - retry.Do, the generic retry/back-off executor (pkg/retry),          *)
(*   - ConcurrentProcessor.ProcessFiles, the bounded-concurrency runner,   *)
(*     with ReviewFileProcessor / Provider.GetCompletion as the per-file    *)
(*     processor (pkg/processor, pkg/llm/anthropic).                        *)
(*   - retry.DoLLMRequest, the retry wrapper of LLM API calls,              *)
(*   - parse.ParseReview, the parser of the model's response (pkg/parse).   *)
(* Four specifications: SpecRetry runs retry.Do on its own with options and *)
(* operation outcomes drawn from bounded sets; Spec runs ProcessFiles;      *)
(* SpecLLM runs retry.DoLLMRequest; SpecParse runs ParseReview on responses *)
(* drawn from a bounded family of documents.  FairSpec and SlowSinkSpec are *)
(* Spec with the scheduling of the goroutines added, with and without the   *)
(* return of the calls of the progress tracker.                             *)
(***************************************************************************)
EXTENDS Integers, Sequences, FiniteSets, TLC

(***************************************************************************)
(* Bounds of the model.                                                    *)
(***************************************************************************)
\* largest Options.MaxRetries drawn for a run of retry.Do
MaxRetriesBound == 3
\* largest number of files handed to ProcessFiles
MaxFiles == 2
\* largest Concurrency.MaxTasks drawn
MaxK == 2

(***************************************************************************)
(* Errors.  An error value is a record: its message (a sequence of          *)
(* characters) and the context sentinel errors.Is finds in its chain.       *)
(* The nil error is NilErr.                                                 *)
(***************************************************************************)
NilErr == [msg |-> <<>>, is |-> "nil"]

NewErr(m) == [msg |-> m, is |-> "none"]

\* strings.Contains(s, sub) on character sequences
Contains(s, sub) ==
    \E i \in 0..(Len(s) - Len(sub)) :
        \A j \in 1..Len(sub) : s[i + j] = sub[j]

\* unicode.ToLower on the characters of the model; a multi-letter symbol
\* stands for that run of letters
LowerChar(c) ==
    CASE c = "T" -> "t"
      [] c = "Rate Limit" -> "rate limit"
      [] c = "Timeout" -> "timeout"
      [] c = "Server Error" -> "server error"
      [] OTHER -> c

\* strings.ToLower(s)
ToLower(s) == [i \in DOMAIN s |-> LowerChar(s[i])]

\* messages the modelled operation can fail with
ErrMsgs == { <<"t">>, <<"x", "t">>, <<"T">>, <<"b">> }

(***************************************************************************)
(* retry.Options                                                            *)
(***************************************************************************)
\* a fraction num/den stands for a float64 field
Frac(n, d) == [num |-> n, den |-> d]

\* values of Options.RetryableErrors that are drawn
RetryableLists == { <<>>, << <<"t">> >>, << <<"b">>, <<"T">> >> }

\* values of Options.IsRetryableFunc that are drawn: unset, or the predicate
\* that accepts exactly the messages of a set
\* (llm marks the predicate IsLLMErrorRetryable, which DoLLMRequest sets)
RetryableFuncs ==
    { [set |-> FALSE, llm |-> FALSE, accepts |-> {}],
      [set |-> TRUE, llm |-> FALSE, accepts |-> {}],
      [set |-> TRUE, llm |-> FALSE, accepts |-> { <<"t">>, <<"b">> }] }

InitialDelays == {1, 3}
MaxDelays == {2, 4, 10}
BackoffFactors == { Frac(2, 1), Frac(3, 2) }
JitterFactors == { Frac(0, 1), Frac(1, 2), Frac(1, 1) }
\* values of rnd.Float64(), in [0, 1)
RndDraws == { Frac(0, 1), Frac(1, 2), Frac(3, 4) }

OptionsSet ==
    [ MaxRetries : 0..MaxRetriesBound,
      InitialDelay : InitialDelays,
      MaxDelay : MaxDelays,
      BackoffFactor : BackoffFactors,
      JitterFactor : JitterFactors,
      RetryableErrors : RetryableLists,
      IsRetryableFunc : RetryableFuncs ]

\* retry.DefaultOptions as adjusted by Provider.GetCompletion (delays in
\* units of 100ms): no retryable list and no predicate are set
GetCompletionOptions ==
    [ MaxRetries |-> 3,
      InitialDelay |-> 10,
      MaxDelay |-> 100,
      BackoffFactor |-> Frac(2, 1),
      JitterFactor |-> Frac(1, 5),
      RetryableErrors |-> <<>>,
      IsRetryableFunc |-> [set |-> FALSE, llm |-> FALSE, accepts |-> {}] ]

\* retry.IsRetryable
IsRetryable(err, retryableErrors) ==
    /\ err # NilErr
    /\ \E i \in 1..Len(retryableErrors) : Contains(err.msg, retryableErrors[i])

\* retry.DefaultLLMRetryableErrors, the messages of the listed errors
DefaultLLMRetryableErrors ==
    << <<"timeout">>, <<"connection reset">>, <<"rate limit">>,
       <<"too many requests">>, <<"server error">>,
       <<"internal ", "server error">>, <<"service unavailable">> >>

\* the status codes IsLLMErrorRetryable looks for in the message
RetryableStatusTexts ==
    { <<"4", "2", "9">>, <<"5", "0", "0">>, <<"5", "0", "2">>,
      <<"5", "0", "3">>, <<"5", "0", "4">> }

\* retry.IsLLMErrorRetryable
IsLLMErrorRetryable(err) ==
    IF err = NilErr THEN FALSE
    ELSE IF err.is = "DeadlineExceeded" THEN TRUE
    ELSE IF err.is = "ErrTimeout" THEN TRUE
    ELSE IF \E c \in RetryableStatusTexts : Contains(err.msg, c) THEN TRUE
    ELSE IF \E i \in 1..Len(DefaultLLMRetryableErrors) :
               Contains(ToLower(err.msg), ToLower(DefaultLLMRetryableErrors[i]))
         THEN TRUE
    ELSE \/ Contains(ToLower(err.msg), <<"rate limit">>)
         \/ Contains(ToLower(err.msg), <<"rate_limit">>)
         \/ Contains(ToLower(err.msg), <<"too many requests">>)

\* retry.isRetryable
isRetryable(err, opts) ==
    IF opts.IsRetryableFunc.set
    THEN IF opts.IsRetryableFunc.llm
         THEN IsLLMErrorRetryable(err)
         ELSE err.msg \in opts.IsRetryableFunc.accepts
    ELSE IsRetryable(err, opts.RetryableErrors)

(***************************************************************************)
(* retry.Do.  The state of one execution of Do is a record:                 *)
(*   pc      "call" (about to invoke fn), "inflight" (fn running),          *)
(*           "sleep" (in time.Sleep), "returned"                            *)
(*   attempt the loop variable                                              *)
(*   delay   the local variable delay                                       *)
(*   calls   number of invocations of fn so far                             *)
(*   result, err   the values Do returned                                   *)
(***************************************************************************)
NoResult == "nil"

DoStart ==
    [pc |-> "call", attempt |-> 0, delay |-> 0, calls |-> 0,
     result |-> NoResult, err |-> NilErr]

\* the loop condition of Do
DoLoopCond(attempt, opts) == attempt <= opts.MaxRetries

\* DoLastAttempt taking MaxRetries for the total number of attempts
DoLastAttempt_OffByOne(attempt, opts) == attempt + 1 = opts.MaxRetries

\* the test for the last attempt
DoLastAttempt(attempt, opts) == attempt = opts.MaxRetries

\* the delay before the next retry, before jitter
DoBackoff(attempt, delay, opts) ==
    IF attempt = 0
    THEN opts.InitialDelay
    ELSE LET d == (delay * opts.BackoffFactor.num) \div opts.BackoffFactor.den
         IN IF d > opts.MaxDelay THEN opts.MaxDelay ELSE d

\* the jitter applied to a delay, r being the value of rnd.Float64()
DoJitter(delay, r, opts) ==
    IF opts.JitterFactor.num > 0
    THEN LET jn == opts.JitterFactor.num
             jd == opts.JitterFactor.den
         IN (delay * (jd * r.den + jn * (2 * r.num - r.den))) \div (jd * r.den)
    ELSE delay

\* DoSuccess dropping the value of the successful attempt
DoSuccess_NilResult(st, v) ==
    [st EXCEPT !.pc = "returned", !.result = NoResult, !.err = NilErr]

\* what Do returns when fn succeeded with value v
DoSuccess(st, v) ==
    [st EXCEPT !.pc = "returned", !.result = v, !.err = NilErr]

\* DoFail replacing the error by a new one of its own
DoFail_MaxRetriesError(st, e) ==
    [st EXCEPT !.pc = "returned", !.result = NoResult,
               !.err = NewErr(<<"max retries exceeded">>)]

\* what Do returns when it gives up with error e
DoFail(st, e) ==
    [st EXCEPT !.pc = "returned", !.result = NoResult, !.err = e]

\* Do starts an invocation of fn (entering the loop body)
DoInvoke(st, opts) ==
    IF DoLoopCond(st.attempt, opts)
    THEN [st EXCEPT !.pc = "inflight", !.calls = @ + 1]
    ELSE DoFail(st, NewErr(<<"u">>))

\* DoAfterCall without the retryability check: every failure is retried
DoAfterCall_NoClassify(st, v, e, r, opts) ==
    IF e = NilErr
    THEN DoSuccess(st, v)
    ELSE IF DoLastAttempt(st.attempt, opts)
    THEN DoFail(st, e)
    ELSE [st EXCEPT !.pc = "sleep",
                    !.delay = DoJitter(DoBackoff(st.attempt, st.delay, opts), r, opts)]

\* the loop body of Do after fn returned (v, e); r is the jitter draw
DoAfterCall(st, v, e, r, opts) ==
    IF e = NilErr
    THEN DoSuccess(st, v)
    ELSE IF ~isRetryable(e, opts)
    THEN DoFail(st, e)
    ELSE IF DoLastAttempt(st.attempt, opts)
    THEN DoFail(st, e)
    ELSE [st EXCEPT !.pc = "sleep",
                    !.delay = DoJitter(DoBackoff(st.attempt, st.delay, opts), r, opts)]

\* time.Sleep returns and the loop advances
DoWake(st) == [st EXCEPT !.pc = "call", !.attempt = @ + 1]


(***************************************************************************)
(* State.                                                                   *)
(*   ctxErr     ctx.Err() of the run context: "nil", "DeadlineExceeded"     *)
(*              or "Canceled"                                               *)
(* retry.Do on its own (SpecRetry):                                         *)
(*   ropts      the Options passed to Do                                    *)
(*   rdo        the state of the execution of Do                            *)
(*   rlast      the (value, error) fn returned last                         *)
(*   rfails     number of invocations that failed with a retryable error    *)
(* ProcessFiles (Spec):                                                     *)
(*   files      the files argument, a sequence of paths                     *)
(*   maxTasks   config.Concurrency.MaxTasks                                 *)
(*   mainPc     position of ProcessFiles itself                             *)
(*   spawned    number of goroutines started by the for loop                *)
(*   wg         counter of the sync.WaitGroup                               *)
(*   semaphore  number of elements in the semaphore channel                 *)
(*   tpc        position of each per-file goroutine                         *)
(*   tdo        state of retry.Do inside each goroutine's GetCompletion     *)
(*   procRet    what p.fileProcessor returned in each goroutine             *)
(*   results, errors   the two maps, by path                                *)
(*   tracker    the calls p.progressTracker has received                     *)
(* retry.DoLLMRequest (SpecLLM), on top of ropts, rdo, rlast, rfails:       *)
(*   lresp      what the LLMAPIFunc returned last: (status of resp, err)    *)
(*   l429       number of invocations that returned a 429 response          *)
(*   lret       what DoLLMRequest returned                                  *)
(* parse.ParseReview (SpecParse):                                           *)
(*   presponse  the response argument, a sequence of characters             *)
(*   ppc        position of ParseReview                                     *)
(*   pjson      what the stage run last returned to ParseReview             *)
(*   presult    what ParseReview returned                                   *)
(***************************************************************************)
VARIABLES ctxErr, ropts, rdo, rlast, rfails,
          files, maxTasks, mainPc, spawned, wg, semaphore,
          tpc, tdo, procRet, results, errors, tracker,
          lresp, l429, lret,
          presponse, ppc, pjson, presult

retryVars == <<ropts, rdo, rlast, rfails>>
procVars == <<files, maxTasks, mainPc, spawned, wg, semaphore,
              tpc, tdo, procRet, results, errors, tracker>>
llmVars == <<lresp, l429, lret>>
parseVars == <<presponse, ppc, pjson, presult>>
vars == <<ctxErr, ropts, rdo, rlast, rfails,
          files, maxTasks, mainPc, spawned, wg, semaphore,
          tpc, tdo, procRet, results, errors, tracker,
          lresp, l429, lret,
          presponse, ppc, pjson, presult>>

\* context.DeadlineExceeded and context.Canceled as error values
CtxError(e) ==
    [msg |-> IF e = "DeadlineExceeded" THEN <<"d">> ELSE <<"c">>, is |-> e]

\* errors.Is(err, context.DeadlineExceeded) || errors.Is(err, context.Canceled)
IsCancellation(err) == err.is \in {"DeadlineExceeded", "Canceled"}

\* values fn can return on success
Values == {"v1", "v2"}

NoOutcome == [v |-> NoResult, e |-> NilErr, none |-> TRUE]

Outcome(v, e) == [v |-> v, e |-> e, none |-> FALSE]

\* what one invocation of fn can return
FnOutcomes ==
    { Outcome(v, NilErr) : v \in Values }
        \cup { Outcome(NoResult, NewErr(m)) : m \in ErrMsgs }

(***************************************************************************)
(* The run context: context.WithTimeout in ReviewWorkflow.Run, and the      *)
(* caller's own context above it.                                           *)
(***************************************************************************)
Tasks == 1..MaxFiles

PathOf == <<"p1", "p2", "p3", "p4", "p5">>

Paths == { PathOf[i] : i \in Tasks }

NoEntry == [none |-> TRUE, result |-> NoResult, err |-> NilErr]

ResultEntry(r) == [none |-> FALSE, result |-> r, err |-> NilErr]

ErrorEntry(e) == [none |-> FALSE, result |-> NoResult, err |-> e]

\* the calls the progress tracker has received: those ProcessFiles made
\* itself, and for each goroutine those it made for its file
NoEvents == [main |-> <<>>, file |-> [t \in Tasks |-> <<>>]]

ProcIdle ==
    /\ files = <<>>
    /\ maxTasks = 1
    /\ mainPc = "returned"
    /\ spawned = 0
    /\ wg = 0
    /\ semaphore = 0
    /\ tpc = [t \in Tasks |-> "idle"]
    /\ tdo = [t \in Tasks |-> DoStart]
    /\ procRet = [t \in Tasks |-> NoEntry]
    /\ results = [p \in Paths |-> NoEntry]
    /\ errors = [p \in Paths |-> NoEntry]
    /\ tracker = NoEvents

RetryIdle ==
    /\ ropts = GetCompletionOptions
    /\ rdo = DoStart
    /\ rlast = NoOutcome
    /\ rfails = 0

\* no HTTP response: a nil *http.Response.  A response is modelled by its
\* StatusCode, written as a string
NoResponse == "nil"

NoLLMOutcome == [resp |-> NoResponse, err |-> NilErr, none |-> TRUE]

LLMOutcome(resp, e) == [resp |-> resp, err |-> e, none |-> FALSE]

LLMIdle ==
    /\ lresp = NoLLMOutcome
    /\ l429 = 0
    /\ lret = NoLLMOutcome

\* a Go slice is a record: whether it is nil, and its items
NilSlice == [isNil |-> TRUE, items |-> <<>>]

MakeSlice(items) == [isNil |-> FALSE, items |-> items]

\* what ParseJSONReview and ParseJSONReviewLenient return: the
\* JSONReviewResult and whether the error is non-nil
JSONReturn(issues, diffs, err) ==
    [none |-> FALSE, Issues |-> issues, Diffs |-> diffs, err |-> err]

NoJSONReturn ==
    [none |-> TRUE, Issues |-> NilSlice, Diffs |-> NilSlice, err |-> FALSE]

\* what ParseReview returns: a *ReviewResult
ReviewResult(issues, diffs) ==
    [none |-> FALSE, Issues |-> issues, Diffs |-> diffs]

NoReviewResult == [none |-> TRUE, Issues |-> NilSlice, Diffs |-> NilSlice]

ParseIdle ==
    /\ presponse = <<>>
    /\ ppc = "idle"
    /\ pjson = NoJSONReturn
    /\ presult = NoReviewResult

\* the deadline of the run context fires
DeadlineFires ==
    /\ ctxErr = "nil"
    /\ ctxErr' = "DeadlineExceeded"
    /\ UNCHANGED <<retryVars, procVars, llmVars, parseVars>>

(***************************************************************************)
(* SpecRetry: one execution of retry.Do(fn, opts).                          *)
(***************************************************************************)
InitRetry ==
    /\ ctxErr = "nil"
    /\ ropts \in OptionsSet
    /\ rdo = DoStart
    /\ rlast = NoOutcome
    /\ rfails = 0
    /\ ProcIdle
    /\ LLMIdle
    /\ ParseIdle

\* Do invokes fn
RetryInvoke ==
    /\ rdo.pc = "call"
    /\ rdo' = DoInvoke(rdo, ropts)
    /\ UNCHANGED <<ctxErr, ropts, rlast, rfails, procVars, llmVars, parseVars>>

\* fn returns and Do classifies the outcome
RetryFnReturns ==
    /\ rdo.pc = "inflight"
    /\ \E o \in FnOutcomes, r \in RndDraws :
        /\ rdo' = DoAfterCall(rdo, o.v, o.e, r, ropts)
        /\ rlast' = o
        /\ rfails' = IF o.e # NilErr /\ isRetryable(o.e, ropts)
                     THEN rfails + 1 ELSE rfails
    /\ UNCHANGED <<ctxErr, ropts, procVars, llmVars, parseVars>>

\* time.Sleep(delay) returns
RetryWake ==
    /\ rdo.pc = "sleep"
    /\ rdo' = DoWake(rdo)
    /\ UNCHANGED <<ctxErr, ropts, rlast, rfails, procVars, llmVars, parseVars>>

\* the run-level deadline fires while Do is executing
RetryDeadline ==
    /\ rdo.pc # "returned"
    /\ DeadlineFires

NextRetry ==
    \/ RetryInvoke
    \/ RetryFnReturns
    \/ RetryWake
    \/ RetryDeadline

SpecRetry == InitRetry /\ [][NextRetry]_vars


(***************************************************************************)
(* SpecLLM: one execution of retry.DoLLMRequest(fn, cfg).                   *)
(***************************************************************************)
\* time.Millisecond, in nanoseconds
Millisecond == 1000000

\* values of cfg.Retry that are drawn (delays in milliseconds)
RetryConfigs ==
    [ Enabled : BOOLEAN,
      MaxRetries : 0..MaxRetriesBound,
      InitialDelay : {1},
      MaxDelay : {3},
      BackoffFactor : { Frac(2, 1) },
      JitterFactor : { Frac(0, 1), Frac(1, 10) },
      RetryableErrors : { <<>>, << <<"rate limit">>, <<"timeout">> >> } ]

\* retry.FromConfig
FromConfig(cfg) ==
    IF ~cfg.Enabled
    THEN [ MaxRetries |-> 0,
           InitialDelay |-> 0,
           MaxDelay |-> 0,
           BackoffFactor |-> Frac(0, 1),
           JitterFactor |-> Frac(0, 1),
           RetryableErrors |-> <<>>,
           IsRetryableFunc |-> [set |-> FALSE, llm |-> FALSE, accepts |-> {}] ]
    ELSE [ MaxRetries |-> cfg.MaxRetries,
           InitialDelay |-> cfg.InitialDelay * Millisecond,
           MaxDelay |-> cfg.MaxDelay * Millisecond,
           BackoffFactor |-> cfg.BackoffFactor,
           JitterFactor |-> cfg.JitterFactor,
           RetryableErrors |-> cfg.RetryableErrors,
           IsRetryableFunc |-> [set |-> FALSE, llm |-> FALSE, accepts |-> {}] ]

\* the options DoLLMRequest passes to Do
DoLLMOptions(cfg) ==
    [FromConfig(cfg) EXCEPT
        !.IsRetryableFunc = [set |-> TRUE, llm |-> TRUE, accepts |-> {}]]

\* llm.NewInvalidRequestError(m)
NewInvalidRequestError(m) ==
    [msg |-> <<"invalid request: ">> \o m, is |-> "ErrInvalidRequest"]

\* llm.NewAuthenticationError(m)
NewAuthenticationError(m) ==
    [msg |-> <<"authentication error: ">> \o m, is |-> "ErrAuthenticationFailure"]

\* llm.NewTimeoutError(m)
NewTimeoutError(m) ==
    [msg |-> <<"timeout", " error: ">> \o m, is |-> "ErrTimeout"]

\* errors.New("received status code <c>") with text after it
StatusError(c, rest) == NewErr(<<"received status code ">> \o c \o rest)

\* the errors the LLMAPIFunc can return
LLMErrors ==
    { CtxError("DeadlineExceeded"),
      NewTimeoutError(<<"request timed out">>),
      NewErr(<<"rate limit", " exceeded">>),
      NewErr(<<"Rate Limit", " exceeded">>),
      NewErr(<<"too many requests">>),
      NewErr(<<"connection reset", " by peer">>),
      NewErr(<<"Server Error", " occurred">>),
      NewErr(<<"service unavailable">>),
      NewErr(<<"bad request">>),
      StatusError(<<"4", "2", "9">>, <<>>),
      StatusError(<<"5", "0", "0">>, <<>>),
      StatusError(<<"5", "0", "3">>, <<>>),
      StatusError(<<"5", "0", "1">>, <<>>),
      StatusError(<<"4", "0", "0">>, <<>>),
      StatusError(<<"4", "0", "4">>, <<": ", "timeout", " waiting for upstream">>),
      NewInvalidRequestError(<<"invalid parameter">>),
      NewInvalidRequestError(<<"timeout", " must be positive">>),
      NewAuthenticationError(<<"invalid API key">>) }

\* the status codes of the responses the LLMAPIFunc can return
LLMStatuses == {"200", "404", "429", "500", "501", "503"}

\* what one invocation of the LLMAPIFunc can return: (resp, nil) or (nil, err)
LLMFnOutcomes ==
    { LLMOutcome(c, NilErr) : c \in LLMStatuses }
        \cup { LLMOutcome(NoResponse, e) : e \in LLMErrors }

\* LLMWrapper passing a 429 response through like any other
LLMWrapper_NoRateLimitCheck(o) == Outcome(o.resp, o.err)

\* the function DoLLMRequest hands to Do, applied to what fn returned
LLMWrapper(o) ==
    IF o.resp # NoResponse /\ o.resp = "429"
    THEN Outcome(NoResult, NewErr(<<"rate limit", " exceeded">>))
    ELSE Outcome(o.resp, o.err)

\* what DoLLMRequest returns once Do has returned
DoLLMReturn(st) ==
    IF st.err # NilErr
    THEN LLMOutcome(NoResponse, st.err)
    ELSE LLMOutcome(st.result, NilErr)

InitLLM ==
    /\ ctxErr = "nil"
    /\ ropts \in { DoLLMOptions(cfg) : cfg \in RetryConfigs }
    /\ rdo = DoStart
    /\ rlast = NoOutcome
    /\ rfails = 0
    /\ LLMIdle
    /\ ProcIdle
    /\ ParseIdle

\* fn returns, the wrapper inspects the response and Do classifies
LLMFnReturns ==
    /\ rdo.pc = "inflight"
    /\ \E o \in LLMFnOutcomes, r \in RndDraws :
        LET w == LLMWrapper(o)
        IN /\ rdo' = DoAfterCall(rdo, w.v, w.e, r, ropts)
           /\ rlast' = w
           /\ lresp' = o
           /\ l429' = IF o.resp = "429" THEN l429 + 1 ELSE l429
           /\ rfails' = IF w.e # NilErr /\ isRetryable(w.e, ropts)
                        THEN rfails + 1 ELSE rfails
    /\ UNCHANGED <<ctxErr, ropts, lret, procVars, parseVars>>

\* Do has returned: DoLLMRequest returns
LLMReturn ==
    /\ rdo.pc = "returned"
    /\ lret.none
    /\ lret' = DoLLMReturn(rdo)
    /\ UNCHANGED <<ctxErr, retryVars, lresp, l429, procVars, parseVars>>

NextLLM ==
    \/ RetryInvoke
    \/ LLMFnReturns
    \/ RetryWake
    \/ LLMReturn

SpecLLM == InitLLM /\ [][NextLLM]_vars


(***************************************************************************)
(* Spec: ConcurrentProcessor.ProcessFiles(ctx, files) as ReviewWorkflow.Run *)
(* calls it, the file processor being ReviewFileProcessor.                  *)
(***************************************************************************)
Max(S) == CHOOSE x \in S : \A y \in S : y <= x

\* the lists of files drawn: every list of at most MaxFiles paths, repeated
\* paths included, up to renaming of the paths
FileLists ==
    { [i \in DOMAIN s |-> PathOf[s[i]]] :
        s \in { q \in UNION { [1..n -> Tasks] : n \in 0..MaxFiles } :
                 \A i \in DOMAIN q :
                    q[i] <= 1 + Max({0} \cup { q[j] : j \in 1..(i - 1) }) } }

Init ==
    /\ ctxErr = "nil"
    /\ RetryIdle
    /\ LLMIdle
    /\ ParseIdle
    /\ files \in FileLists
    /\ maxTasks \in 1..MaxK
    /\ mainPc = "start"
    /\ spawned = 0
    /\ wg = 0
    /\ semaphore = 0
    /\ tpc = [t \in Tasks |-> "idle"]
    /\ tdo = [t \in Tasks |-> DoStart]
    /\ procRet = [t \in Tasks |-> NoEntry]
    /\ results = [p \in Paths |-> NoEntry]
    /\ errors = [p \in Paths |-> NoEntry]
    /\ tracker = NoEvents

\* the caller's context (the parent of the timeout context) is cancelled
CallerCancels ==
    /\ mainPc # "returned"
    /\ ctxErr = "nil"
    /\ ctxErr' = "Canceled"
    /\ UNCHANGED <<retryVars, procVars, llmVars, parseVars>>

\* the timeout of ReviewWorkflow.Run expires during the run
RunDeadline ==
    /\ mainPc # "returned"
    /\ DeadlineFires

(***************************************************************************)
(* ProcessFiles itself                                                      *)
(***************************************************************************)
\* p.progressTracker.Start(len(files))
MainTrackerStart ==
    /\ mainPc = "start"
    /\ mainPc' = "spawn"
    /\ tracker' = [tracker EXCEPT !.main = Append(@, <<"Start", Len(files)>>)]
    /\ UNCHANGED <<ctxErr, retryVars, llmVars, parseVars,
                   files, maxTasks, spawned, wg, semaphore,
                   tpc, tdo, procRet, results, errors>>

\* one iteration of the for loop: wg.Add(1); go func(file) {...}(file)
MainSpawn ==
    /\ mainPc = "spawn"
    /\ spawned < Len(files)
    /\ spawned' = spawned + 1
    /\ wg' = wg + 1
    /\ tpc' = [tpc EXCEPT ![spawned + 1] = "select"]
    /\ UNCHANGED <<ctxErr, retryVars, llmVars, parseVars,
                   files, tracker, maxTasks, mainPc, semaphore,
                   tdo, procRet, results, errors>>

\* WgWaitReturns giving up the join once the run context is done
WgWaitReturns_OnDeadline == wg = 0 \/ ctxErr # "nil"

\* wg.Wait() returns
WgWaitReturns == wg = 0

\* the loop is over and wg.Wait() returns
MainWait ==
    /\ mainPc = "spawn"
    /\ spawned = Len(files)
    /\ WgWaitReturns
    /\ mainPc' = "finish"
    /\ UNCHANGED <<ctxErr, retryVars, llmVars, parseVars,
                   files, tracker, maxTasks, spawned, wg, semaphore,
                   tpc, tdo, procRet, results, errors>>

\* p.progressTracker.Finish()
MainTrackerFinish ==
    /\ mainPc = "finish"
    /\ mainPc' = "return"
    /\ tracker' = [tracker EXCEPT !.main = Append(@, <<"Finish">>)]
    /\ UNCHANGED <<ctxErr, retryVars, llmVars, parseVars,
                   files, maxTasks, spawned, wg, semaphore,
                   tpc, tdo, procRet, results, errors>>

\* return results, errors; the deferred cancel() runs
MainReturn ==
    /\ mainPc = "return"
    /\ mainPc' = "returned"
    /\ ctxErr' = IF ctxErr = "nil" THEN "Canceled" ELSE ctxErr
    /\ UNCHANGED <<retryVars, llmVars, parseVars,
                   files, tracker, maxTasks, spawned, wg, semaphore,
                   tpc, tdo, procRet, results, errors>>

(***************************************************************************)
(* The goroutine of file number t                                           *)
(***************************************************************************)
Spawned == 1..spawned

\* SemaphoreCanSend for a channel made one element too large
SemaphoreCanSend_OffByOne == semaphore <= maxTasks

\* the send on the semaphore channel can proceed
SemaphoreCanSend == semaphore < maxTasks

\* select: case semaphore <- struct{}{}
TaskAcquire(t) ==
    /\ tpc[t] = "select"
    /\ SemaphoreCanSend
    /\ semaphore' = semaphore + 1
    /\ tpc' = [tpc EXCEPT ![t] = "startFile"]
    /\ UNCHANGED <<ctxErr, retryVars, llmVars, parseVars,
                   files, tracker, maxTasks, mainPc, spawned, wg,
                   tdo, procRet, results, errors>>

\* select: case <-ctx.Done()
TaskCancelled(t) ==
    /\ tpc[t] = "select"
    /\ ctxErr # "nil"
    /\ tpc' = [tpc EXCEPT ![t] = "cancelErrorFile"]
    /\ UNCHANGED <<ctxErr, retryVars, llmVars, parseVars,
                   files, tracker, maxTasks, mainPc, spawned, wg,
                   semaphore, tdo, procRet, results, errors>>

\* p.progressTracker.ErrorFile(file.Path, ctx.Err().Error()) in the
\* ctx.Done() case
TaskCancelErrorFile(t) ==
    /\ tpc[t] = "cancelErrorFile"
    /\ tpc' = [tpc EXCEPT ![t] = "cancelWrite"]
    /\ tracker' = [tracker EXCEPT !.file[t] =
           Append(@, <<"ErrorFile", files[t], CtxError(ctxErr).msg>>)]
    /\ UNCHANGED <<ctxErr, retryVars, llmVars, parseVars,
                   files, maxTasks, mainPc, spawned, wg,
                   semaphore, tdo, procRet, results, errors>>

\* TaskCancelWrite returning without recording the cancellation
TaskCancelWrite_NoRecord(t) ==
    /\ tpc[t] = "cancelWrite"
    /\ tpc' = [tpc EXCEPT ![t] = "wgDone"]
    /\ UNCHANGED <<ctxErr, retryVars, llmVars, parseVars,
                   files, tracker, maxTasks, mainPc, spawned, wg,
                   semaphore, tdo, procRet, results, errors>>

\* errors[file.Path] = ctx.Err() under errorsMutex, then return
TaskCancelWrite(t) ==
    /\ tpc[t] = "cancelWrite"
    /\ errors' = [errors EXCEPT ![files[t]] = ErrorEntry(CtxError(ctxErr))]
    /\ tpc' = [tpc EXCEPT ![t] = "wgDone"]
    /\ UNCHANGED <<ctxErr, retryVars, llmVars, parseVars,
                   files, tracker, maxTasks, mainPc, spawned, wg,
                   semaphore, tdo, procRet, results>>

\* TaskStartFile without the call of the tracker
TaskStartFile_NoEvent(t) ==
    /\ tpc[t] = "startFile"
    /\ tpc' = [tpc EXCEPT ![t] = "diff"]
    /\ UNCHANGED <<ctxErr, retryVars, llmVars, parseVars,
                   files, tracker, maxTasks, mainPc, spawned, wg,
                   semaphore, tdo, procRet, results, errors>>

\* p.progressTracker.StartFile(file.Path)
TaskStartFile(t) ==
    /\ tpc[t] = "startFile"
    /\ tpc' = [tpc EXCEPT ![t] = "diff"]
    /\ tracker' = [tracker EXCEPT !.file[t] = Append(@, <<"StartFile", files[t]>>)]
    /\ UNCHANGED <<ctxErr, retryVars, llmVars, parseVars,
                   files, maxTasks, mainPc, spawned, wg,
                   semaphore, tdo, procRet, results, errors>>

\* fmt.Errorf("failed to get diff for file %s: %w", file.Path, err)
DiffError(path) == [msg |-> <<"D", path, ":", "g">>, is |-> "none"]

\* llm.NewProviderError(msg, err): Error() is the fixed message, Unwrap
\* leads to err
ProviderError(tag, err) == [msg |-> <<"P", tag>>, is |-> err.is]

\* fmt.Errorf("failed to get LLM response for file %s: %w", file.Path, err)
LLMError(path, err) == [msg |-> <<"L", path, ":">> \o err.msg, is |-> err.is]

\* what the HTTP call inside GetCompletion can return: a well-formed body,
\* a body that does not decode, or an error
HttpOutcomes ==
    { Outcome("v1", NilErr), Outcome("bad", NilErr),
      Outcome(NoResult, NewErr(<<"Anthropic API error: ", "rate limit", " exceeded">>)),
      Outcome(NoResult, NewErr(<<"b">>)) }

\* Provider.GetCompletion after retry.Do returned: (text, err)
GetCompletionReturn(st) ==
    IF st.err # NilErr
    THEN [text |-> NoResult, err |-> ProviderError("send", st.err)]
    ELSE IF st.result = "bad"
    THEN [text |-> NoResult, err |-> ProviderError("parse", NewErr(<<"j">>))]
    ELSE [text |-> st.result, err |-> NilErr]

\* ReviewFileProcessor after provider.GetCompletion returned gc, ctx being
\* ctx.Err() at that moment: the processor's (result, error)
ProcessorReturn(path, gc, ctx) ==
    IF gc.err # NilErr
    THEN ErrorEntry(LLMError(path, gc.err))
    ELSE IF ctx # "nil"
    THEN ErrorEntry(CtxError(ctx))
    ELSE ResultEntry(gc.text)

\* ReviewFileProcessor up to the HTTP call: fetch the diff, check
\* ctx.Done(), build the prompt, and in GetCompletion enter retry.Do, which
\* invokes p.client.Do(req)
TaskProcessorStart(t) ==
    /\ tpc[t] = "diff"
    /\ \E diffOk \in BOOLEAN :
        IF ~diffOk
        THEN /\ procRet' = [procRet EXCEPT ![t] = ErrorEntry(DiffError(files[t]))]
             /\ tpc' = [tpc EXCEPT ![t] = "procReturned"]
             /\ tdo' = tdo
        ELSE IF ctxErr # "nil"
        THEN /\ procRet' = [procRet EXCEPT ![t] = ErrorEntry(CtxError(ctxErr))]
             /\ tpc' = [tpc EXCEPT ![t] = "procReturned"]
             /\ tdo' = tdo
        ELSE /\ procRet' = procRet
             /\ tdo' = [tdo EXCEPT ![t] = DoInvoke(DoStart, GetCompletionOptions)]
             /\ tpc' = [tpc EXCEPT ![t] = "doInflight"]
    /\ UNCHANGED <<ctxErr, retryVars, llmVars, parseVars,
                   files, tracker, maxTasks, mainPc, spawned, wg,
                   semaphore, results, errors>>

\* the HTTP call returns; retry.Do classifies the outcome.  No error is
\* retryable under GetCompletionOptions, so Do returns here in every case
\* (its sleeping branch is exercised in SpecRetry); GetCompletion and the
\* processor then return, the processor after its second ctx.Done() check.
TaskDoReturn(t) ==
    /\ tpc[t] = "doInflight"
    /\ \E o \in HttpOutcomes, r \in RndDraws :
        LET st == DoAfterCall(tdo[t], o.v, o.e, r, GetCompletionOptions)
        IN /\ tdo' = [tdo EXCEPT ![t] = st]
           /\ IF st.pc = "returned"
              THEN /\ procRet' = [procRet EXCEPT ![t] =
                          ProcessorReturn(files[t], GetCompletionReturn(st), ctxErr)]
                   /\ tpc' = [tpc EXCEPT ![t] = "procReturned"]
              ELSE /\ procRet' = procRet
                   /\ tpc' = [tpc EXCEPT ![t] = "doSleep"]
    /\ UNCHANGED <<ctxErr, retryVars, llmVars, parseVars,
                   files, tracker, maxTasks, mainPc, spawned, wg,
                   semaphore, results, errors>>

\* if err != nil: p.progressTracker.ErrorFile(file.Path, err.Error())
TaskErrorFile(t) ==
    /\ tpc[t] = "procReturned"
    /\ procRet[t].err # NilErr
    /\ tpc' = [tpc EXCEPT ![t] = "writeError"]
    /\ tracker' = [tracker EXCEPT !.file[t] =
           Append(@, <<"ErrorFile", files[t], procRet[t].err.msg>>)]
    /\ UNCHANGED <<ctxErr, retryVars, llmVars, parseVars,
                   files, maxTasks, mainPc, spawned, wg,
                   semaphore, tdo, procRet, results, errors>>

\* TaskWriteError without the return: the failed file's nil result is
\* stored in results as well
TaskWriteError_NoReturn(t) ==
    /\ tpc[t] = "writeError"
    /\ errors' = [errors EXCEPT ![files[t]] = ErrorEntry(procRet[t].err)]
    /\ results' = [results EXCEPT ![files[t]] = ResultEntry(procRet[t].result)]
    /\ tpc' = [tpc EXCEPT ![t] = "release"]
    /\ UNCHANGED <<ctxErr, retryVars, llmVars, parseVars,
                   files, tracker, maxTasks, mainPc, spawned, wg,
                   semaphore, tdo, procRet>>

\* errors[file.Path] = err under errorsMutex, then return
TaskWriteError(t) ==
    /\ tpc[t] = "writeError"
    /\ errors' = [errors EXCEPT ![files[t]] = ErrorEntry(procRet[t].err)]
    /\ tpc' = [tpc EXCEPT ![t] = "release"]
    /\ UNCHANGED <<ctxErr, retryVars, llmVars, parseVars,
                   files, tracker, maxTasks, mainPc, spawned, wg,
                   semaphore, tdo, procRet, results>>

\* ReviewResult.GetIssueCount: 0 for a nil result; the reviews drawn hold
\* as many issues as their name says
GetIssueCount(r) ==
    CASE r = "v1" -> 1
      [] r = "v2" -> 2
      [] OTHER -> 0

\* p.progressTracker.CompleteFile(file.Path, result.GetIssueCount())
TaskCompleteFile(t) ==
    /\ tpc[t] = "procReturned"
    /\ procRet[t].err = NilErr
    /\ tpc' = [tpc EXCEPT ![t] = "writeResult"]
    /\ tracker' = [tracker EXCEPT !.file[t] =
           Append(@, <<"CompleteFile", files[t],
                       GetIssueCount(procRet[t].result)>>)]
    /\ UNCHANGED <<ctxErr, retryVars, llmVars, parseVars,
                   files, maxTasks, mainPc, spawned, wg,
                   semaphore, tdo, procRet, results, errors>>

\* results[file.Path] = result under resultsMutex
TaskWriteResult(t) ==
    /\ tpc[t] = "writeResult"
    /\ results' = [results EXCEPT ![files[t]] = ResultEntry(procRet[t].result)]
    /\ tpc' = [tpc EXCEPT ![t] = "release"]
    /\ UNCHANGED <<ctxErr, retryVars, llmVars, parseVars,
                   files, tracker, maxTasks, mainPc, spawned, wg,
                   semaphore, tdo, procRet, errors>>

\* TaskRelease without the receive from the semaphore channel
TaskRelease_KeepsSlot(t) ==
    /\ tpc[t] = "release"
    /\ tpc' = [tpc EXCEPT ![t] = "wgDone"]
    /\ UNCHANGED <<ctxErr, retryVars, llmVars, parseVars,
                   files, tracker, maxTasks, mainPc, spawned, wg,
                   semaphore, tdo, procRet, results, errors>>

\* deferred: <-semaphore
TaskRelease(t) ==
    /\ tpc[t] = "release"
    /\ semaphore' = semaphore - 1
    /\ tpc' = [tpc EXCEPT ![t] = "wgDone"]
    /\ UNCHANGED <<ctxErr, retryVars, llmVars, parseVars,
                   files, tracker, maxTasks, mainPc, spawned, wg,
                   tdo, procRet, results, errors>>

\* deferred: wg.Done()
TaskDone(t) ==
    /\ tpc[t] = "wgDone"
    /\ wg' = wg - 1
    /\ tpc' = [tpc EXCEPT ![t] = "done"]
    /\ UNCHANGED <<ctxErr, retryVars, llmVars, parseVars,
                   files, tracker, maxTasks, mainPc, spawned,
                   semaphore, tdo, procRet, results, errors>>

Next ==
    \/ CallerCancels
    \/ RunDeadline
    \/ MainTrackerStart
    \/ MainSpawn
    \/ MainWait
    \/ MainTrackerFinish
    \/ MainReturn
    \/ \E t \in Spawned : TaskAcquire(t)
    \/ \E t \in Spawned : TaskCancelled(t)
    \/ \E t \in Spawned : TaskCancelErrorFile(t)
    \/ \E t \in Spawned : TaskCancelWrite(t)
    \/ \E t \in Spawned : TaskStartFile(t)
    \/ \E t \in Spawned : TaskProcessorStart(t)
    \/ \E t \in Spawned : TaskDoReturn(t)
    \/ \E t \in Spawned : TaskErrorFile(t)
    \/ \E t \in Spawned : TaskWriteError(t)
    \/ \E t \in Spawned : TaskCompleteFile(t)
    \/ \E t \in Spawned : TaskWriteResult(t)
    \/ \E t \in Spawned : TaskRelease(t)
    \/ \E t \in Spawned : TaskDone(t)

Spec == Init /\ [][Next]_vars

\* the steps of Next that are calls of the progress tracker
TrackerStep ==
    \/ MainTrackerStart
    \/ MainTrackerFinish
    \/ \E t \in Spawned : TaskCancelErrorFile(t)
    \/ \E t \in Spawned : TaskStartFile(t)
    \/ \E t \in Spawned : TaskErrorFile(t)
    \/ \E t \in Spawned : TaskCompleteFile(t)

\* the other steps of ProcessFiles and of its goroutines, the return of the
\* HTTP call among them
RunnerStep ==
    \/ MainSpawn
    \/ MainWait
    \/ MainReturn
    \/ \E t \in Spawned : TaskAcquire(t)
    \/ \E t \in Spawned : TaskCancelled(t)
    \/ \E t \in Spawned : TaskCancelWrite(t)
    \/ \E t \in Spawned : TaskProcessorStart(t)
    \/ \E t \in Spawned : TaskDoReturn(t)
    \/ \E t \in Spawned : TaskWriteError(t)
    \/ \E t \in Spawned : TaskWriteResult(t)
    \/ \E t \in Spawned : TaskRelease(t)
    \/ \E t \in Spawned : TaskDone(t)

\* FairSpec: the goroutines are scheduled, every call of the file processor
\* and of the tracker returns; the context is cancelled or not
FairSpec == Init /\ [][Next]_vars /\ WF_vars(RunnerStep \/ TrackerStep)

\* SlowSinkSpec: as FairSpec, but a call of the tracker may block for ever
SlowSinkSpec == Init /\ [][Next]_vars /\ WF_vars(RunnerStep)

(***************************************************************************)
(* parse: the response parser.  A response is a sequence of characters.     *)
(* The characters of the model are the JSON punctuation, the double quote   *)
(* Quote, the backslash Bsl, the newline NL and the space, single letters,  *)
(* and symbols of several letters that stand for that run of letters        *)
(* ("title", "</think>", "fence" for the three backquotes of a code fence);  *)
(* "BS" is the backspace character; no response drawn has a backslash      *)
(* before a symbol of several letters.                                      *)
(***************************************************************************)
Quote == "\""

Bsl == "\\"

NL == "\n"

\* the characters unicode.IsSpace accepts (and \s in the regular expressions)
Whitespace == {" ", NL, "\t", "\r", "\f"}

Least(S) == CHOOSE x \in S : \A y \in S : x <= y

\* strings.TrimSpace
TrimSpace(s) ==
    LET keep == { i \in 1..Len(s) : s[i] \notin Whitespace }
    IN IF keep = {} THEN <<>> ELSE SubSeq(s, Least(keep), Max(keep))

\* old occurs in s at position i
OccursAt(s, old, i) ==
    /\ i + Len(old) - 1 <= Len(s)
    /\ \A j \in 1..Len(old) : s[i + j - 1] = old[j]

RECURSIVE ReplaceAll(_, _, _)
\* strings.ReplaceAll(s, old, new) (old is not empty)
ReplaceAll(s, old, new) ==
    LET at == { k \in 1..Len(s) : OccursAt(s, old, k) }
    IN IF at = {} THEN s
       ELSE SubSeq(s, 1, Least(at) - 1) \o new
                \o ReplaceAll(SubSeq(s, Least(at) + Len(old), Len(s)),
                              old, new)

\* util.RemoveThinkTags
RemoveThinkTags(content) ==
    LET at == { i \in 1..Len(content) : content[i] = "</think>" }
    IN IF at # {}
       THEN TrimSpace(SubSeq(content, Least(at) + 1, Len(content)))
       ELSE content

\* the first position at or after i that holds no whitespace (Len(s)+1 when
\* there is none): where \s* stops
SkipSpace(s, i) ==
    LET stop == { k \in i..Len(s) : s[k] \notin Whitespace }
    IN IF stop = {} THEN Len(s) + 1
       ELSE CHOOSE k \in stop : \A j \in stop : k <= j

\* s from position b on is a newline, space, the closing fence and space
FenceCloseAt(s, b) ==
    /\ b <= Len(s)
    /\ s[b] = NL
    /\ LET f == SkipSpace(s, b + 1)
       IN /\ f <= Len(s)
          /\ s[f] = "fence"
          /\ SkipSpace(s, f + 1) = Len(s) + 1

\* ReplaceAllString(response, "$1") for a pattern that matches the whole of
\* s: space, the opening fence open, space ending in a newline, the group
\* (lazy), a newline, space, the closing fence, space
StripFence(s, open) ==
    LET l == SkipSpace(s, 1)
        k == l + Len(open)
        \* the newlines \s*\n can end at, and for each the newline where
        \* (.*?) can end
        as == { a \in k..Len(s) :
                  /\ s[a] = NL
                  /\ SkipSpace(s, k) >= a
                  /\ \E b \in (a + 1)..Len(s) : FenceCloseAt(s, b) }
    IN IF OccursAt(s, open, l) /\ as # {}
       THEN LET a == CHOOSE x \in as : \A y \in as : y <= x
                bs == { b \in (a + 1)..Len(s) : FenceCloseAt(s, b) }
                b == CHOOSE x \in bs : \A y \in bs : x <= y
            IN SubSeq(s, a + 1, b - 1)
       ELSE s

\* parse.cleanResponse
cleanResponse(response) ==
    TrimSpace(StripFence(StripFence(response, <<"fence", "json">>), <<"fence">>))

RECURSIVE LiteralEnd(_, _)
\* the string-literal pattern of preprocessSpecialChars, a quote, then
\* lazily many of (backslash and any character but newline | any character
\* but a quote), then a quote: with the opening quote before position j,
\* the position of the closing quote of the match a backtracking matcher
\* finds first, 0 when there is no match
LiteralEnd(s, j) ==
    IF j > Len(s) THEN 0
    ELSE IF s[j] = Quote THEN j
    ELSE LET viaEscape ==
                 IF s[j] = Bsl /\ j + 1 <= Len(s) /\ s[j + 1] # NL
                 THEN LiteralEnd(s, j + 2)
                 ELSE 0
         IN IF viaEscape # 0 THEN viaEscape ELSE LiteralEnd(s, j + 1)

\* the function preprocessSpecialChars applies to the content of a literal
EscapeContent(content) ==
    LET c1 == ReplaceAll(content, <<"\t">>, <<Bsl, "t">>)
        c2 == ReplaceAll(c1, <<"\r">>, <<Bsl, "r">>)
        c3 == ReplaceAll(c2, <<NL>>, <<Bsl, "n">>)
        c4 == ReplaceAll(c3, <<"BS">>, <<Bsl, "b">>)
        c5 == ReplaceAll(c4, <<"\f">>, <<Bsl, "f">>)
        c6 == ReplaceAll(c5, <<Bsl, Quote>>, <<Bsl, Quote>>)
    IN ReplaceAll(c6, <<Quote>>, <<Bsl, Quote>>)

RECURSIVE EscapeLiterals(_, _)
\* strLiteralRegex.ReplaceAllStringFunc(input, ...) from position i on
EscapeLiterals(s, i) ==
    LET quotes == { k \in i..Len(s) : s[k] = Quote }
        q == CHOOSE x \in quotes : \A y \in quotes : x <= y
        e == LiteralEnd(s, q + 1)
    IN IF quotes = {} THEN SubSeq(s, i, Len(s))
       ELSE IF e = 0 THEN SubSeq(s, i, q) \o EscapeLiterals(s, q + 1)
       ELSE SubSeq(s, i, q) \o EscapeContent(SubSeq(s, q + 1, e - 1))
                \o <<Quote>> \o EscapeLiterals(s, e + 1)

RECURSIVE DropTrailingCommas(_, _)
\* the replacement of a comma, space and a closing brace or bracket by the
\* space and the brace or bracket, from position i on
DropTrailingCommas(s, i) ==
    LET commas == { k \in i..Len(s) :
                      /\ s[k] = ","
                      /\ SkipSpace(s, k + 1) <= Len(s)
                      /\ s[SkipSpace(s, k + 1)] \in {"}", "]"} }
        k == CHOOSE x \in commas : \A y \in commas : x <= y
        c == SkipSpace(s, k + 1)
    IN IF commas = {} THEN SubSeq(s, i, Len(s))
       ELSE SubSeq(s, i, k - 1) \o SubSeq(s, k + 1, c)
                \o DropTrailingCommas(s, c + 1)

\* parse.preprocessSpecialChars
preprocessSpecialChars(input) ==
    DropTrailingCommas(EscapeLiterals(input, 1), 1)

(***************************************************************************)
(* encoding/json: json.Unmarshal(data, &JSONReviewResult).  A JSON value is *)
(* a record: kind "string" (str its decoded characters), "array" (items     *)
(* its elements), "object" (items its members, each a key and a val) or     *)
(* "null".  A Go slice is a record: isNil and its items.                     *)
(***************************************************************************)
JValue(kind, str, items) == [kind |-> kind, str |-> str, items |-> items]

JNull == JValue("null", <<>>, <<>>)

ScanFail == [ok |-> FALSE, next |-> 0, v |-> JNull]

ScanOk(next, v) == [ok |-> TRUE, next |-> next, v |-> v]

\* the character an escape sequence of a JSON string stands for
EscapeOf(c) ==
    CASE c = Quote -> Quote
      [] c = Bsl -> Bsl
      [] c = "/" -> "/"
      [] c = "b" -> "BS"
      [] c = "f" -> "\f"
      [] c = "n" -> NL
      [] c = "r" -> "\r"
      [] c = "t" -> "\t"

RECURSIVE ScanString(_, _, _)
\* a JSON string whose opening quote is before position j; acc is the
\* decoded part
ScanString(s, j, acc) ==
    IF j > Len(s) THEN ScanFail
    ELSE IF s[j] = Quote THEN ScanOk(j + 1, JValue("string", acc, <<>>))
    ELSE IF s[j] = Bsl
    THEN IF j + 1 <= Len(s)
            /\ s[j + 1] \in {Quote, Bsl, "/", "b", "f", "n", "r", "t"}
         THEN ScanString(s, j + 2, Append(acc, EscapeOf(s[j + 1])))
         ELSE ScanFail
    ELSE IF s[j] \in {NL, "\t", "\r", "\f", "BS"} THEN ScanFail
    ELSE ScanString(s, j + 1, Append(acc, s[j]))

RECURSIVE ScanValue(_, _)
RECURSIVE ScanElements(_, _, _)
RECURSIVE ScanMembers(_, _, _)
\* a JSON value starting at or after position i0
ScanValue(s, i0) ==
    LET i == SkipSpace(s, i0)
    IN IF i > Len(s) THEN ScanFail
       ELSE IF s[i] = Quote THEN ScanString(s, i + 1, <<>>)
       ELSE IF s[i] = "null" THEN ScanOk(i + 1, JNull)
       ELSE IF s[i] = "["
       THEN LET k == SkipSpace(s, i + 1)
            IN IF k <= Len(s) /\ s[k] = "]"
               THEN ScanOk(k + 1, JValue("array", <<>>, <<>>))
               ELSE ScanElements(s, i + 1, <<>>)
       ELSE IF s[i] = "{"
       THEN LET k == SkipSpace(s, i + 1)
            IN IF k <= Len(s) /\ s[k] = "}"
               THEN ScanOk(k + 1, JValue("object", <<>>, <<>>))
               ELSE ScanMembers(s, i + 1, <<>>)
       ELSE ScanFail

\* the elements of an array from position i on, acc those before
ScanElements(s, i, acc) ==
    LET r == ScanValue(s, i)
        k == SkipSpace(s, r.next)
    IN IF ~r.ok \/ k > Len(s) THEN ScanFail
       ELSE IF s[k] = "," THEN ScanElements(s, k + 1, Append(acc, r.v))
       ELSE IF s[k] = "]" THEN ScanOk(k + 1, JValue("array", <<>>, Append(acc, r.v)))
       ELSE ScanFail

\* the members of an object from position i on, acc those before
ScanMembers(s, i, acc) ==
    LET q == SkipSpace(s, i)
        key == IF q <= Len(s) /\ s[q] = Quote
               THEN ScanString(s, q + 1, <<>>) ELSE ScanFail
        c == SkipSpace(s, key.next)
        r == IF key.ok /\ c <= Len(s) /\ s[c] = ":"
             THEN ScanValue(s, c + 1) ELSE ScanFail
        k == SkipSpace(s, r.next)
        member == [key |-> key.v.str, val |-> r.v]
    IN IF ~r.ok \/ k > Len(s) THEN ScanFail
       ELSE IF s[k] = "," THEN ScanMembers(s, k + 1, Append(acc, member))
       ELSE IF s[k] = "}" THEN ScanOk(k + 1, JValue("object", <<>>, Append(acc, member)))
       ELSE ScanFail

\* the whole of data is one JSON value with space around it
ScanDocument(data) ==
    LET r == ScanValue(data, 1)
    IN IF r.ok /\ SkipSpace(data, r.next) = Len(data) + 1 THEN r ELSE ScanFail

\* decoding the members named name into a string field: err when one of
\* them is neither a string nor null; the last string wins
StringField(members, name) ==
    LET named == { i \in 1..Len(members) : members[i].key = name }
        strs == { i \in named : members[i].val.kind = "string" }
    IN [err |-> \E i \in named : members[i].val.kind \notin {"string", "null"},
        val |-> IF strs = {} THEN <<>> ELSE members[Max(strs)].val.str]

\* parse.Issue
Issue(title, explanation, diff, file) ==
    [Title |-> title, Explanation |-> explanation, Diff |-> diff, File |-> file]

\* parse.FileDiff
FileDiff(file, diff) == [File |-> file, Diff |-> diff]

\* decoding one element of "issues" into an Issue
DecodeIssue(v) ==
    IF v.kind = "object"
    THEN LET t == StringField(v.items, <<"title">>)
             e == StringField(v.items, <<"explanation">>)
             d == StringField(v.items, <<"diff">>)
             f == StringField(v.items, <<"file">>)
         IN [err |-> t.err \/ e.err \/ d.err \/ f.err,
             val |-> Issue(t.val, e.val, d.val, f.val)]
    ELSE [err |-> v.kind # "null", val |-> Issue(<<>>, <<>>, <<>>, <<>>)]

\* decoding one element of "diffs" into a FileDiff
DecodeFileDiff(v) ==
    IF v.kind = "object"
    THEN LET f == StringField(v.items, <<"file">>)
             d == StringField(v.items, <<"diff">>)
         IN [err |-> f.err \/ d.err, val |-> FileDiff(f.val, d.val)]
    ELSE [err |-> v.kind # "null", val |-> FileDiff(<<>>, <<>>)]

\* decoding the members named "issues" into Issues: the last array wins,
\* null leaves the field as it is
IssuesField(members) ==
    LET named == { i \in 1..Len(members) : members[i].key = <<"issues">> }
        arrays == { i \in named : members[i].val.kind = "array" }
        last == members[Max(arrays)].val.items
    IN [err |-> \/ \E i \in named :
                       members[i].val.kind \notin {"array", "null"}
                \/ \E i \in arrays : \E j \in 1..Len(members[i].val.items) :
                       DecodeIssue(members[i].val.items[j]).err,
        val |-> IF arrays = {} THEN NilSlice
                ELSE MakeSlice([j \in 1..Len(last) |-> DecodeIssue(last[j]).val])]

\* decoding the members named "diffs" into Diffs
DiffsField(members) ==
    LET named == { i \in 1..Len(members) : members[i].key = <<"diffs">> }
        arrays == { i \in named : members[i].val.kind = "array" }
        last == members[Max(arrays)].val.items
    IN [err |-> \/ \E i \in named :
                       members[i].val.kind \notin {"array", "null"}
                \/ \E i \in arrays : \E j \in 1..Len(members[i].val.items) :
                       DecodeFileDiff(members[i].val.items[j]).err,
        val |-> IF arrays = {} THEN NilSlice
                ELSE MakeSlice([j \in 1..Len(last) |-> DecodeFileDiff(last[j]).val])]

\* decoding the scanned document r into a zero JSONReviewResult
DecodeDocument(r) ==
    IF ~r.ok THEN [err |-> TRUE, Issues |-> NilSlice, Diffs |-> NilSlice]
    ELSE IF r.v.kind = "null"
    THEN [err |-> FALSE, Issues |-> NilSlice, Diffs |-> NilSlice]
    ELSE IF r.v.kind # "object"
    THEN [err |-> TRUE, Issues |-> NilSlice, Diffs |-> NilSlice]
    ELSE [err |-> IssuesField(r.v.items).err \/ DiffsField(r.v.items).err,
          Issues |-> IssuesField(r.v.items).val,
          Diffs |-> DiffsField(r.v.items).val]

\* json.Unmarshal([]byte(data), &directResult) on a zero JSONReviewResult
Unmarshal(data) == DecodeDocument(ScanDocument(data))

(***************************************************************************)
(* parse: lenient extraction.  A regular expression is modelled by the      *)
(* match a leftmost-first matcher finds; FindAll takes the leftmost match   *)
(* at or after the end of the one before.                                   *)
(***************************************************************************)
\* the pattern quote, key, quote, space, colon, space, quote matches s at
\* position i: the position after it (where the field's content starts),
\* and 0 when it does not match
FieldStartAt(s, i, key) ==
    LET c == SkipSpace(s, i + 3)
        q == SkipSpace(s, c + 1)
    IN IF /\ i + 2 <= Len(s)
          /\ s[i] = Quote /\ s[i + 1] = key /\ s[i + 2] = Quote
          /\ c <= Len(s) /\ s[c] = ":"
          /\ q <= Len(s) /\ s[q] = Quote
       THEN q + 1
       ELSE 0

\* the group of one or more characters other than quotes, then a quote,
\* matches s at position j (j # 0): the position of that quote, else 0
CaptureEnd(s, j) ==
    LET quotes == { k \in j..Len(s) : s[k] = Quote }
    IN IF j = 0 \/ quotes = {} THEN 0
       ELSE IF Least(quotes) = j THEN 0 ELSE Least(quotes)

\* the pattern of a field with a captured non-empty content matches s at
\* position i: the content and the position of the closing quote
CapturedFieldAt(s, i, key) ==
    LET j == FieldStartAt(s, i, key)
        e == CaptureEnd(s, j)
    IN IF j = 0 \/ e = 0
       THEN [ok |-> FALSE, text |-> <<>>, last |-> 0]
       ELSE [ok |-> TRUE, text |-> SubSeq(s, j, e - 1), last |-> e]

\* the pattern of ParseJSONReviewLenient (a captured "title", lazily any
\* characters, a captured "explanation") matches s at position i: the
\* lazy run ends at the first place where the rest matches
LenientMatchAt(s, i) ==
    LET t == CapturedFieldAt(s, i, "title")
        ps == { p \in (t.last + 1)..Len(s) :
                  CapturedFieldAt(s, p, "explanation").ok }
        x == CapturedFieldAt(s, Least(ps), "explanation")
    IN IF ~t.ok \/ ps = {}
       THEN [ok |-> FALSE, title |-> <<>>, explanation |-> <<>>, last |-> 0]
       ELSE [ok |-> TRUE, title |-> t.text, explanation |-> x.text,
             last |-> x.last]

RECURSIVE LenientIssues(_, _)
\* the issues made of re.FindAllStringSubmatch(response, -1), the search
\* being at position i: the Issue appended for the leftmost match, and
\* those of the matches after it
LenientIssues(s, i) ==
    LET starts == { k \in i..Len(s) : LenientMatchAt(s, k).ok }
    IN IF starts = {} THEN <<>>
       ELSE <<Issue(TrimSpace(LenientMatchAt(s, Least(starts)).title),
                    TrimSpace(LenientMatchAt(s, Least(starts)).explanation),
                    <<>>, <<>>)>>
                \o LenientIssues(s, LenientMatchAt(s, Least(starts)).last + 1)

\* parse.unescapeJSONString
unescapeJSONString(s) ==
    ReplaceAll(
      ReplaceAll(
        ReplaceAll(
          ReplaceAll(
            ReplaceAll(
              ReplaceAll(
                ReplaceAll(s, <<Bsl, "n">>, <<NL>>),
                <<Bsl, "t">>, <<"\t">>),
              <<Bsl, "r">>, <<"\r">>),
            <<Bsl, Quote>>, <<Quote>>),
          <<Bsl, Bsl>>, <<Bsl>>),
        <<Bsl, "b">>, <<"BS">>),
      <<Bsl, "f">>, <<"\f">>)

RECURSIVE DiffContentEnd(_, _)
\* the scan of extractRobustDiffs for the first quote that is not escaped,
\* from position k on: its position, 0 when there is none
DiffContentEnd(s, k) ==
    IF k > Len(s) THEN 0
    ELSE IF s[k] = Bsl THEN DiffContentEnd(s, k + 2)
    ELSE IF s[k] = Quote THEN k
    ELSE DiffContentEnd(s, k + 1)

\* the body of the loop of extractRobustDiffs for a match of the "file"
\* pattern whose closing quote is at position e: the FileDiff appended, if
\* the start of a "diff" field and the closing quote of its content are
\* found
RobustDiffFor(s, filePath, e) ==
    LET ps == { p \in e..Len(s) : FieldStartAt(s, p, "diff") # 0 }
        diffContentStart == FieldStartAt(s, Least(ps), "diff")
        diffContentEnd == DiffContentEnd(s, diffContentStart)
    IN IF ps = {} THEN <<>>
       ELSE IF diffContentEnd = 0 THEN <<>>
       ELSE <<FileDiff(filePath,
                       unescapeJSONString(
                           SubSeq(s, diffContentStart, diffContentEnd - 1)))>>

RECURSIVE RobustDiffsFrom(_, _)
\* the FileDiffs appended for the matches of the "file" pattern found from
\* position i on
RobustDiffsFrom(s, i) ==
    LET starts == { k \in i..Len(s) : CapturedFieldAt(s, k, "file").ok }
    IN IF starts = {} THEN <<>>
       ELSE RobustDiffFor(s, CapturedFieldAt(s, Least(starts), "file").text,
                          CapturedFieldAt(s, Least(starts), "file").last)
                \o RobustDiffsFrom(
                       s, CapturedFieldAt(s, Least(starts), "file").last + 1)

\* a slice declared with var and appended to: nil until something is
\* appended
Appended(items) == IF items = <<>> THEN NilSlice ELSE MakeSlice(items)

\* parse.extractRobustDiffs
extractRobustDiffs(response) == Appended(RobustDiffsFrom(response, 1))

\* what ParseJSONReviewLenient returns for the issues of the matches
LenientReturn(issues, response) ==
    IF Len(issues) > 0
    THEN JSONReturn(Appended(issues), extractRobustDiffs(response), FALSE)
    ELSE JSONReturn(MakeSlice(<<>>), NilSlice, TRUE)

\* parse.ParseJSONReviewLenient
ParseJSONReviewLenient(response) ==
    LenientReturn(LenientIssues(response, 1), response)

\* the end of ParseJSONReview: the result of the lenient approach, or the
\* default
LenientOrDefault(lenientResult) ==
    IF ~lenientResult.err /\ Len(lenientResult.Issues.items) > 0
    THEN lenientResult
    ELSE JSONReturn(MakeSlice(<<>>), NilSlice, TRUE)

\* ParseJSONReview after json.Unmarshal: response is the cleaned response
DirectOrLenient(directResult, response) ==
    IF ~directResult.err /\ Len(directResult.Issues.items) > 0
    THEN JSONReturn(directResult.Issues, directResult.Diffs, FALSE)
    ELSE LenientOrDefault(ParseJSONReviewLenient(response))

\* ParseJSONReview after cleanResponse
ParseCleaned(response) ==
    DirectOrLenient(Unmarshal(preprocessSpecialChars(response)), response)

\* parse.ParseJSONReview
ParseJSONReview(response) ==
    IF response = <<>>
    THEN JSONReturn(MakeSlice(<<>>), NilSlice, FALSE)
    ELSE ParseCleaned(cleanResponse(RemoveThinkTags(response)))

cleanupIssues_NoFileDefault(issues) ==
    [issues EXCEPT !.items =
        [i \in 1..Len(issues.items) |->
            [issues.items[i] EXCEPT
                !.Title = IF @ = <<>> THEN <<"Unnamed Issue">> ELSE @,
                !.Explanation =
                    IF @ = <<>> THEN <<"No explanation provided.">> ELSE @]]]

\* parse.cleanupIssues
cleanupIssues(issues) ==
    [issues EXCEPT !.items =
        [i \in 1..Len(issues.items) |->
            [issues.items[i] EXCEPT
                !.Title = IF @ = <<>> THEN <<"Unnamed Issue">> ELSE @,
                !.Explanation =
                    IF @ = <<>> THEN <<"No explanation provided.">> ELSE @,
                !.File = IF @ = <<>> THEN <<"General">> ELSE @]]]

(***************************************************************************)
(* The responses ParseReview is run on: documents of the format the prompt  *)
(* asks the model for (an object with "issues" and "diffs"), as they are    *)
(* or wrapped the ways a model wraps them, the empty string and plain text. *)
(***************************************************************************)
\* most entries of a "diffs" array in a document drawn
MaxDiffs == 2

Member(key, content) ==
    <<Quote, key, Quote, ":", " ", Quote>> \o content \o <<Quote>>

RECURSIVE Join(_, _)
Join(parts, sep) ==
    IF parts = <<>> THEN <<>>
    ELSE IF Len(parts) = 1 THEN parts[1]
    ELSE parts[1] \o sep \o Join(Tail(parts), sep)

Object(members) == <<"{">> \o Join(members, <<",">>) \o <<"}">>

Array(elements) == <<"[">> \o Join(elements, <<",">>) \o <<"]">>

\* elements of "issues": complete, with a file, with an empty title, with
\* a title and an explanation of spaces, without explanation, without title
IssueTexts ==
    { Object(<<Member("title", <<"a">>), Member("explanation", <<"x">>)>>),
      Object(<<Member("title", <<"b">>), Member("explanation", <<"y">>),
               Member("file", <<"f">>)>>),
      Object(<<Member("title", <<>>), Member("explanation", <<"x">>)>>),
      Object(<<Member("title", <<" ">>), Member("explanation", <<" ">>),
               Member("file", <<"g">>)>>),
      Object(<<Member("title", <<"a">>)>>),
      Object(<<Member("explanation", <<"x">>), Member("file", <<"f">>)>>) }

IssueLists ==
    {<<>>} \cup { <<i>> : i \in IssueTexts }
           \cup { <<i, j>> : i \in IssueTexts, j \in IssueTexts }

DiffTexts ==
    { Object(<<Member("file", f), Member("diff", b)>>) :
        f \in { <<"f">>, <<"g">> }, b \in { <<"d">>, <<"d", Bsl, "n", "e">> } }

DiffLists ==
    UNION { [1..n -> DiffTexts] : n \in 0..MaxDiffs }

\* a document: "issues" and, or not, "diffs"
Document(issues, rest) ==
    Object(<< <<Quote, "issues", Quote, ":">> \o Array(issues) >> \o rest)

Documents ==
    { Document(i, <<>>) : i \in IssueLists }
      \cup { Document(i, << <<Quote, "diffs", Quote, ":">> \o Array(l) >>) :
                i \in IssueLists, l \in DiffLists }

\* most characters and escape sequences of a diff text in a document drawn
MaxBodyLen == 2

\* what a diff text is made of: letters, the control characters as they
\* are, the escape sequences of a quote, a backslash and a newline, and a
\* comma and a closing brace
BodyTokens ==
    { <<"l">>, <<"n">>, <<NL>>, <<"\t">>, <<"\r">>, <<"BS">>, <<"\f">>,
      <<Bsl, Quote>>, <<Bsl, Bsl>>, <<Bsl, "n">>, <<",">>, <<"}">> }

Bodies ==
    { Join(p, <<>>) : p \in UNION { [1..n -> BodyTokens] : n \in 0..MaxBodyLen } }

\* documents of one issue for a file and one diff with the text body
BodyDocuments ==
    { Document(<<Object(<<Member("title", <<"b">>),
                          Member("explanation", <<"y">>),
                          Member("file", <<"f">>)>>)>>,
               << <<Quote, "diffs", Quote, ":">>
                    \o Array(<<Object(<<Member("file", <<"g">>),
                                        Member("diff", b)>>)>>) >>) :
        b \in Bodies }

\* the documents as they are, inside a code fence marked json, after the
\* model's reasoning, before a closing think tag and a remark, cut before
\* the last brace; the empty response and a response of plain text; the
\* documents with a diff text as they are and cut before the last brace
Responses ==
    Documents
      \cup { <<"fence", "json", NL>> \o d \o <<NL, "fence">> : d \in Documents }
      \cup { <<"<think>", "r", "</think>", NL>> \o d : d \in Documents }
      \cup { d \o <<NL, "</think>", "o", "k">> : d \in Documents }
      \cup { SubSeq(d, 1, Len(d) - 1) : d \in Documents }
      \cup { <<>>, <<"n", "o", " ", "issues">> }
      \cup BodyDocuments
      \cup { SubSeq(d, 1, Len(d) - 1) : d \in BodyDocuments }

(***************************************************************************)
(* SpecParse: one execution of parse.ParseReview(response).  ppc is "start" *)
(* at the call, "lenient" between the two stages, and then the return       *)
(* statement ParseReview left through: "empty input", "strict", "lenient    *)
(* result" or "nothing".                                                    *)
(***************************************************************************)
InitParse ==
    /\ ctxErr = "nil"
    /\ RetryIdle
    /\ LLMIdle
    /\ ProcIdle
    /\ presponse \in Responses
    /\ ppc = "start"
    /\ pjson = NoJSONReturn
    /\ presult = NoReviewResult

\* the test ParseReview makes of what a stage returned
Usable(r) ==
    /\ ~r.err
    /\ ~r.none
    /\ (Len(r.Issues.items) > 0 \/ Len(r.Diffs.items) > 0)

EmptyReviewResult_NilLists == ReviewResult(NilSlice, NilSlice)

\* the ReviewResult of all parsing methods having failed, and of the
\* empty response
EmptyReviewResult == ReviewResult(MakeSlice(<<>>), MakeSlice(<<>>))

\* response == ""
ParseEmpty ==
    /\ ppc = "start"
    /\ presponse = <<>>
    /\ ppc' = "empty input"
    /\ presult' = EmptyReviewResult
    /\ UNCHANGED <<presponse, pjson>>
    /\ UNCHANGED <<ctxErr, retryVars, procVars, llmVars>>

\* the first stage: ParseJSONReview
ParseStrictStage ==
    /\ ppc = "start"
    /\ presponse # <<>>
    /\ pjson' = ParseJSONReview(presponse)
    /\ IF Usable(pjson')
       THEN /\ ppc' = "strict"
            /\ presult' = ReviewResult(cleanupIssues(pjson'.Issues), pjson'.Diffs)
       ELSE /\ ppc' = "lenient"
            /\ UNCHANGED presult
    /\ UNCHANGED presponse
    /\ UNCHANGED <<ctxErr, retryVars, procVars, llmVars>>

\* the second stage: ParseJSONReviewLenient on the response as given
ParseLenientStage ==
    /\ ppc = "lenient"
    /\ pjson' = ParseJSONReviewLenient(presponse)
    /\ IF Usable(pjson')
       THEN /\ ppc' = "lenient result"
            /\ presult' = ReviewResult(cleanupIssues(pjson'.Issues), pjson'.Diffs)
       ELSE /\ ppc' = "nothing"
            /\ presult' = EmptyReviewResult
    /\ UNCHANGED presponse
    /\ UNCHANGED <<ctxErr, retryVars, procVars, llmVars>>

NextParse == ParseEmpty \/ ParseStrictStage \/ ParseLenientStage

SpecParse == InitParse /\ [][NextParse]_vars

(***************************************************************************)
(* Properties of ProcessFiles (Spec).                                       *)
(***************************************************************************)
FileTasks == 1..Len(files)

\* the paths of files are pairwise distinct
DistinctPaths == \A i, j \in FileTasks : i # j => files[i] # files[j]

\* the goroutines inside p.fileProcessor: called and not yet returned
InProcessor == { t \in FileTasks : tpc[t] \in {"diff", "doInflight", "doSleep"} }

\* the goroutines holding a slot of the semaphore
HoldingSlot ==
    { t \in FileTasks : tpc[t] \in {"startFile", "diff", "doInflight", "doSleep",
                                    "procReturned", "writeError", "writeResult",
                                    "release"} }

ResultKeys == { p \in Paths : ~results[p].none }

ErrorKeys == { p \in Paths : ~errors[p].none }

\* the goroutines whose p.fileProcessor call returned an error
FailedTasks == { t \in FileTasks : ~procRet[t].none /\ procRet[t].err # NilErr }

\* C1: at every moment of a run with MaxTasks = k, at most k calls of the
\* file processor have started and not returned.
C1_ConcurrencyBound == Cardinality(InProcessor) <= maxTasks

\* more files than slots, every slot busy in the processor, a task waiting
C1_Witness ==
    /\ Len(files) > maxTasks
    /\ Cardinality(InProcessor) = maxTasks
    /\ \E t \in FileTasks : tpc[t] = "select"

\* C2: once ProcessFiles is past wg.Wait(), every spawned goroutine has
\* terminated with its outcome recorded in results or errors; this also
\* holds when the deadline has fired.
C2_JoinBeforeReturn ==
    mainPc \in {"finish", "return", "returned"}
        => \A t \in FileTasks :
              /\ tpc[t] = "done"
              /\ files[t] \in ResultKeys \cup ErrorKeys

C2_Witness ==
    /\ mainPc = "returned"
    /\ ctxErr = "DeadlineExceeded"
    /\ Len(files) >= 2
    /\ \E t \in FileTasks : tdo[t].calls > 0

\* C3: when ProcessFiles returns from a run without cancellation in which
\* the processor failed for exactly one of the n (distinct) files, results
\* has n-1 entries, errors has exactly one, and that one is the failed
\* file's own error.
C3_FailureIsolation ==
    (/\ mainPc = "return"
     /\ ctxErr = "nil"
     /\ DistinctPaths
     /\ Cardinality(FailedTasks) = 1)
        => /\ Cardinality(ResultKeys) = Len(files) - 1
           /\ Cardinality(ErrorKeys) = 1
           /\ \A t \in FailedTasks :
                 /\ errors[files[t]] = ErrorEntry(procRet[t].err)
                 /\ results[files[t]].none
           /\ \A t \in FileTasks \ FailedTasks :
                 results[files[t]] = ResultEntry(procRet[t].result)

C3_Witness ==
    /\ mainPc = "return"
    /\ ctxErr = "nil"
    /\ DistinctPaths
    /\ Len(files) >= 2
    /\ Cardinality(FailedTasks) = 1
    /\ \E t \in FailedTasks : tdo[t].calls > 0

\* C4: for files with pairwise distinct paths, when ProcessFiles returns
\* every input path is a key of exactly one of results and errors and no
\* other key exists; an entry, once written, is never written again.
C4_OneOutcomePerPath ==
    /\ []((mainPc \in {"return", "returned"} /\ DistinctPaths)
            => \A p \in Paths :
                  IF \E t \in FileTasks : files[t] = p
                  THEN (p \in ResultKeys) # (p \in ErrorKeys)
                  ELSE p \notin ResultKeys /\ p \notin ErrorKeys)
    /\ [][DistinctPaths
            => \A p \in Paths :
                  /\ p \in ResultKeys => results'[p] = results[p]
                  /\ p \in ErrorKeys => errors'[p] = errors[p]]_vars

\* one file succeeded, one was cancelled before admission
C4_Witness ==
    /\ mainPc = "returned"
    /\ DistinctPaths
    /\ Len(files) >= 2
    /\ ResultKeys # {}
    /\ \E t \in FileTasks : tdo[t].calls = 0 /\ files[t] \in ErrorKeys

\* C5: a task that has not acquired a slot when the run context is done
\* never acquires one (so never calls the file processor): from there it
\* can only take the ctx.Done() case.
C5_NoAdmissionAfterCancel ==
    [][\A t \in Tasks :
          (tpc[t] \in {"idle", "select"} /\ ctxErr # "nil")
              => tpc'[t] \in {"idle", "select", "cancelErrorFile"}]_vars

\* C6: when the deadline has fired while a file's LLM call is in flight,
\* the file processor returns the context's error for that file, whatever
\* the call returns.
C6_DeadlineInFlightIsCancellation ==
    [][\A t \in Tasks :
          (tpc[t] = "doInflight" /\ ctxErr = "DeadlineExceeded"
                /\ tpc'[t] = "procReturned")
              => procRet'[t] = ErrorEntry(CtxError("DeadlineExceeded"))]_vars

\* C17: the LLM call of a file is retried by the retry executor: when it
\* fails with a retryable error such as 'rate limit exceeded' while retries
\* remain, it is invoked again (f failures and a success making f+1
\* invocations and an entry in results), so retry.Do inside GetCompletion
\* gives up on a retryable error only after MaxRetries+1 invocations.
C17_PipelineCallRetried ==
    \A t \in Tasks :
        (/\ tdo[t].pc = "returned"
         /\ tdo[t].err # NilErr
         /\ IsLLMErrorRetryable(tdo[t].err))
            => tdo[t].calls = GetCompletionOptions.MaxRetries + 1

(***************************************************************************)
(* Properties of retry.Do (SpecRetry).                                      *)
(***************************************************************************)
\* fn's last return was a failure the classifier reports as retryable or not
LastFailed == ~rlast.none /\ rlast.e # NilErr

LastSucceeded == ~rlast.none /\ rlast.e = NilErr

\* C7: the back-off sleep is cancellable: once the run-level cancellation has
\* fired during an execution of Do that has already made an attempt (Do is
\* sleeping, or about to retry), fn is not invoked again.
C7_BackoffCancellable ==
    [][(ctxErr # "nil" /\ rdo.calls > 0) => rdo'.calls = rdo.calls]_vars

\* C8: Do never invokes fn more than MaxRetries+1 times, and when every
\* invocation failed with a retryable error Do returns, with an error, after
\* exactly MaxRetries+1 invocations.
C8_RetryBudget ==
    /\ rdo.calls <= ropts.MaxRetries + 1
    /\ (rdo.pc = "returned" /\ rfails = rdo.calls)
         => (rdo.calls = ropts.MaxRetries + 1 /\ rdo.err # NilErr)

C8_Witness ==
    /\ rdo.pc = "returned"
    /\ rfails = rdo.calls
    /\ ropts.MaxRetries = MaxRetriesBound
    /\ rdo.calls = MaxRetriesBound + 1

\* C9: when an invocation fails with an error classified non-retryable, Do
\* has returned that very error without sleeping, and fn has been invoked
\* only for the retryable failures before it plus this once (exactly once
\* when it is the first attempt); Do invokes nothing after returning.
C9_NonRetryableShortCircuit ==
    /\ [](LastFailed /\ ~isRetryable(rlast.e, ropts)
            => /\ rdo.pc = "returned"
               /\ rdo.err = rlast.e
               /\ rdo.result = NoResult
               /\ rdo.calls = rfails + 1)
    /\ [][rdo.pc = "returned" => rdo' = rdo]_vars

C9_Witness ==
    /\ LastFailed
    /\ ~isRetryable(rlast.e, ropts)
    /\ ropts.MaxRetries > 0
    /\ rdo.calls = 1
    /\ rdo.pc = "returned"

\* C10: when an invocation succeeds after f retryable failures, Do has
\* returned that invocation's value with a nil error after exactly f+1
\* invocations, f <= MaxRetries, and fn is not invoked again.
C10_StopOnSuccess ==
    /\ [](LastSucceeded
            => /\ rdo.pc = "returned"
               /\ rdo.result = rlast.v
               /\ rdo.err = NilErr
               /\ rdo.calls = rfails + 1
               /\ rfails <= ropts.MaxRetries)
    /\ [][LastSucceeded => rdo'.calls = rdo.calls]_vars

\* success on the third attempt under a custom predicate, as in
\* TestRetryWithCustomIsRetryableFunc
C10_Witness ==
    /\ LastSucceeded
    /\ ropts.IsRetryableFunc.set
    /\ rfails = 2
    /\ rdo.calls = 3
    /\ rdo.result \in Values

\* Do goes to sleep in this step, after a retryable failure
DoSleeps == rdo.pc = "inflight" /\ rdo'.pc = "sleep"

\* float64(delay) * BackoffFactor truncated to a time.Duration
ScaledDelay(delay, opts) ==
    (delay * opts.BackoffFactor.num) \div opts.BackoffFactor.den

\* C11: backoff monotonicity.  Under a policy with BackoffFactor > 1 and
\* JitterFactor = 0 the delays Do sleeps are: first InitialDelay, each next
\* one the previous one times BackoffFactor and strictly larger while the
\* previous one is below MaxDelay, MaxDelay exactly once MaxDelay has been
\* reached; and no delay slept exceeds MaxDelay.
C11_BackoffMonotone ==
    [][(/\ DoSleeps
        /\ ropts.JitterFactor.num = 0
        /\ ropts.BackoffFactor.num > ropts.BackoffFactor.den)
          => /\ rdo'.delay <= ropts.MaxDelay
             /\ rdo.attempt = 0 => rdo'.delay = ropts.InitialDelay
             /\ (rdo.attempt > 0 /\ rdo.delay < ropts.MaxDelay)
                   => /\ rdo'.delay > rdo.delay
                      /\ rdo'.delay \in {ScaledDelay(rdo.delay, ropts),
                                         ropts.MaxDelay}
             /\ (rdo.attempt > 0 /\ rdo.delay >= ropts.MaxDelay)
                   => rdo'.delay = ropts.MaxDelay]_vars

\* the message of e contains one of the configured substrings, letter case
\* ignored
MatchesIgnoringCase(e, retryableErrors) ==
    \E i \in 1..Len(retryableErrors) :
        Contains(ToLower(e.msg), ToLower(retryableErrors[i]))

\* C13: when no custom predicate is set, a failed attempt that is not the
\* last one is retried if and only if the error's message contains one of
\* the configured retryable substrings, compared case-insensitively.
C13_CaseInsensitiveSubstrings ==
    [][(/\ rdo.pc = "inflight"
        /\ rdo'.pc # "inflight"
        /\ rlast'.e # NilErr
        /\ ~ropts.IsRetryableFunc.set
        /\ rdo.attempt < ropts.MaxRetries)
          => (rdo'.pc = "sleep"
                <=> MatchesIgnoringCase(rlast'.e, ropts.RetryableErrors))]_vars

(***************************************************************************)
(* Properties of retry.DoLLMRequest (SpecLLM).                              *)
(***************************************************************************)
\* fn returns in this step and Do classifies what the wrapper made of it
LLMAttemptEnds == rdo.pc = "inflight" /\ rdo'.pc # "inflight"

\* the HTTP statuses the error's message reports, each as its three digits
ReportedStatuses(e) ==
    { <<e.msg[i + 1], e.msg[i + 2], e.msg[i + 3]>> :
        i \in { k \in 1..(Len(e.msg) - 3) : e.msg[k] = "received status code " } }

Reports429(e) == <<"4", "2", "9">> \in ReportedStatuses(e)

Reports5xx(e) == \E c \in ReportedStatuses(e) : c[1] = "5"

Reports4xxOther(e) ==
    \E c \in ReportedStatuses(e) : c[1] = "4" /\ c # <<"4", "2", "9">>

\* 5xx status codes of responses
ServerErrorStatuses == {"500", "501", "502", "503", "504"}

\* C12: when the retry budget is exhausted, Do returns exactly the error of
\* the last attempt, and DoLLMRequest on top of it returns that same error
\* with a nil response: the error fn itself returned, or for a 429 response
\* the error the wrapper made of it; the classifier therefore answers the
\* same on the returned error as on the last attempt's.
C12_LastErrorUnmodified ==
    (rdo.pc = "returned" /\ LastFailed /\ rdo.calls = ropts.MaxRetries + 1)
        => /\ rdo.err = rlast.e
           /\ rdo.result = NoResult
           /\ lresp.resp # "429" => rdo.err = lresp.err
           /\ ~lret.none
                => /\ lret.err = rlast.e
                   /\ lret.resp = NoResponse
                   /\ isRetryable(lret.err, ropts) = isRetryable(rlast.e, ropts)

\* the budget of three retries exhausted on an error fn returned itself
C12_Witness ==
    /\ ~lret.none
    /\ rdo.calls = ropts.MaxRetries + 1
    /\ ropts.MaxRetries = MaxRetriesBound
    /\ lresp.resp = NoResponse
    /\ lret.err = lresp.err
    /\ lret.err # NilErr

\* the errors C14 lists as retryable
ListedRetryable(e) ==
    \/ e.is \in {"DeadlineExceeded", "ErrTimeout"}
    \/ Reports429(e)
    \/ Reports5xx(e)
    \/ \E w \in { <<"rate limit">>, <<"timeout">>, <<"connection reset">>,
                   <<"server error">>, <<"service unavailable">> } :
          Contains(ToLower(e.msg), w)

\* C14: an attempt that is not the last one is retried by DoLLMRequest when
\* fn returned a deadline-exceeded or LLM timeout error, an error reporting
\* status 429 or any 5xx status, or an error whose message contains, case
\* ignored, 'rate limit', 'timeout', 'connection reset', 'server error' or
\* 'service unavailable'; and when fn returned a response with a 5xx status.
C14_RetryableClasses ==
    [][(/\ LLMAttemptEnds
        /\ rdo.attempt < ropts.MaxRetries
        /\ \/ (lresp'.err # NilErr /\ ListedRetryable(lresp'.err))
           \/ lresp'.resp \in ServerErrorStatuses)
          => rdo'.pc = "sleep"]_vars

\* the request/authentication-class errors of C15
RequestClass(e) ==
    \/ e.is \in {"ErrInvalidRequest", "ErrAuthenticationFailure"}
    \/ Reports4xxOther(e)

\* C15: when fn returns an llm.InvalidRequestError, an
\* llm.AuthenticationError or an error reporting a 4xx status other than
\* 429, whatever the rest of its message, DoLLMRequest does not retry: Do
\* returns that error at once, after exactly one invocation when it is the
\* first attempt.
C15_RequestErrorsNeverRetried ==
    [][(/\ LLMAttemptEnds
        /\ lresp'.err # NilErr
        /\ RequestClass(lresp'.err))
          => /\ rdo'.pc = "returned"
             /\ rdo'.err = lresp'.err
             /\ rdo.attempt = 0 => rdo'.calls = 1]_vars

\* C16: a 429 response with a nil error is a retryable failure (retried
\* while attempts remain); DoLLMRequest never returns a 429 response as a
\* success; and when every attempt yielded 429, DoLLMRequest has made
\* exactly MaxRetries+1 attempts and returns a nil response with an error.
C16_RateLimitSpecialization ==
    /\ [](~lret.none
            => /\ lret.err = NilErr => lret.resp # "429"
               /\ l429 = rdo.calls
                    => /\ rdo.calls = ropts.MaxRetries + 1
                       /\ lret.resp = NoResponse
                       /\ lret.err # NilErr)
    /\ [][(LLMAttemptEnds /\ lresp'.resp = "429" /\ lresp'.err = NilErr)
            => /\ rlast'.e # NilErr
               /\ isRetryable(rlast'.e, ropts)
               /\ IF rdo.attempt < ropts.MaxRetries
                  THEN rdo'.pc = "sleep"
                  ELSE rdo'.pc = "returned" /\ rdo'.err # NilErr]_vars

\* every attempt of the largest budget yielded a 429 response
C16_Witness ==
    /\ ~lret.none
    /\ ropts.MaxRetries = MaxRetriesBound
    /\ l429 = MaxRetriesBound + 1
    /\ rdo.calls = MaxRetriesBound + 1
    /\ lresp.resp = "429"
    /\ lret.err # NilErr

C19_DiffsDeduplicated ==
    (ppc \notin {"idle", "start", "lenient"}) =>
        \A i, j \in 1..Len(presult.Diffs.items) :
            i # j => presult.Diffs.items[i].File # presult.Diffs.items[j].File

C21_DiffsAloneUsable ==
    ( /\ ppc \notin {"idle", "start", "lenient"}
      /\ ~Unmarshal(presponse).err
      /\ Len(Unmarshal(presponse).Issues.items) = 0
      /\ Len(Unmarshal(presponse).Diffs.items) > 0 ) =>
        presult.Diffs.items = Unmarshal(presponse).Diffs.items

\* the response ParseJSONReview decodes: after RemoveThinkTags and
\* cleanResponse
Cleaned == cleanResponse(RemoveThinkTags(presponse))

\* s with every control character written as its escape sequence
EscapeControls(s) ==
    ReplaceAll(
      ReplaceAll(
        ReplaceAll(
          ReplaceAll(
            ReplaceAll(s, <<NL>>, <<Bsl, "n">>),
            <<"\t">>, <<Bsl, "t">>),
          <<"\r">>, <<Bsl, "r">>),
        <<"BS">>, <<Bsl, "b">>),
      <<"\f">>, <<Bsl, "f">>)

\* C22: for a response that is a valid document with an issue but for
\* control characters (newline, tab, carriage return, backspace, form feed)
\* standing as they are inside its string literals, the strict decode of
\* the repaired text succeeds and ParseJSONReview returns, without error,
\* the issues and diffs of the document with these characters escaped:
\* each field holds the control characters of the response.
C22_LiteralRepair ==
    ( /\ ppc \in {"strict", "lenient"}
      /\ EscapeControls(Cleaned) # Cleaned
      /\ ~Unmarshal(EscapeControls(Cleaned)).err
      /\ Len(Unmarshal(EscapeControls(Cleaned)).Issues.items) > 0 ) =>
        /\ ~Unmarshal(preprocessSpecialChars(Cleaned)).err
        /\ ~pjson.err
        /\ pjson.Issues = Unmarshal(EscapeControls(Cleaned)).Issues
        /\ pjson.Diffs = Unmarshal(EscapeControls(Cleaned)).Diffs

\* C23: for a response that is a valid document with at least one issue,
\* escaped quotes and escaped backslashes in its strings included,
\* ParseJSONReview returns, without error, the issues and the diffs a
\* strict decode of the response yields.
C23_ValidJSONPreserved ==
    ( /\ ppc \in {"strict", "lenient"}
      /\ ~Unmarshal(presponse).err
      /\ Len(Unmarshal(presponse).Issues.items) > 0 ) =>
        /\ ~pjson.err
        /\ pjson.Issues = Unmarshal(presponse).Issues
        /\ pjson.Diffs = Unmarshal(presponse).Diffs

\* C24: ParseJSONReview returns an empty issue list and a nil error for the
\* empty string and for a valid document whose issues array is empty, and
\* it returns an error only when neither the strict decode nor the lenient
\* extraction could read the text.
C24_EmptyIsNotFailure ==
    /\ ~ParseJSONReview(<<>>).err
    /\ ParseJSONReview(<<>>).Issues = MakeSlice(<<>>)
    /\ ( /\ ppc \in {"strict", "lenient"}
         /\ ~Unmarshal(presponse).err
         /\ Unmarshal(presponse).Issues = MakeSlice(<<>>) ) =>
           /\ ~pjson.err
           /\ pjson.Issues = MakeSlice(<<>>)
    /\ (ppc \in {"strict", "lenient"} /\ pjson.err) =>
           /\ Unmarshal(preprocessSpecialChars(Cleaned)).err
           /\ ParseJSONReviewLenient(Cleaned).err

\* C30: for a document cut before its last brace, whose strings are valid
\* JSON strings (quotes, backslashes and newlines escaped), the lenient
\* extraction recovers the diff texts the complete document decodes to:
\* the scan ends at the first quote outside an escape sequence and
\* unescapeJSONString turns the escaped text back into the original.
C30_LenientDiffRoundTrip ==
    ( /\ ppc = "strict"
      /\ Unmarshal(preprocessSpecialChars(Cleaned)).err
      /\ ~Unmarshal(presponse \o <<"}">>).err
      /\ Len(Unmarshal(presponse \o <<"}">>).Diffs.items) > 0 ) =>
        { pjson.Diffs.items[i].Diff : i \in 1..Len(pjson.Diffs.items) }
          = { Unmarshal(presponse \o <<"}">>).Diffs.items[i].Diff :
                i \in 1..Len(Unmarshal(presponse \o <<"}">>).Diffs.items) }

(***************************************************************************)
(* Properties of ProcessFiles with its progress tracker (Spec, FairSpec,   *)
(* SlowSinkSpec).                                                           *)
(***************************************************************************)
\* C28: whatever MaxTasks and the number of files, when every call of the
\* file processor returns ProcessFiles returns, with or without the context
\* being cancelled; when it has returned no admission slot is held, and a
\* run without files returns two empty maps.
C28_NoDeadlock ==
    /\ <>(mainPc = "returned")
    /\ [](mainPc = "returned" =>
            /\ semaphore = 0
            /\ \A t \in FileTasks : tpc[t] = "done"
            /\ files = <<>> => (ResultKeys = {} /\ ErrorKeys = {}))

\* a run of more files than MaxTasks has returned with every file in the
\* results (no cancellation had a part in it) and no slot held
C28_Witness ==
    /\ mainPc = "returned"
    /\ Len(files) > maxTasks
    /\ semaphore = 0
    /\ Cardinality(ResultKeys) = Len(files)

\* C25: the progress tracker only observes.  Though a call of Start,
\* StartFile, CompleteFile, ErrorFile or Finish blocks for ever,
\* ProcessFiles returns, and every goroutine waiting for a slot leaves the
\* select.
C25_SinkIsObservational ==
    /\ <>(mainPc = "returned")
    /\ \A t \in Tasks : (tpc[t] = "select") ~> (tpc[t] # "select")

\* C26: a goroutine has released its admission slot when it writes its
\* entry into results or errors, and when it reports the file's completion
\* or error: the slot is given back as soon as the file processor returns.
\* The slots taken are those of the goroutines between their admission and
\* the return of the file processor, none is taken by a goroutine that is
\* writing its entry.
C26_ReleaseBeforeBookkeeping ==
    semaphore <= Cardinality({ t \in FileTasks :
                                 tpc[t] \in {"startFile", "diff", "doInflight",
                                             "doSleep", "procReturned"} })

\* C27: the calls the tracker receives.  Start(len(files)) comes once,
\* before any call for a file, and Finish once, when every file has had its
\* terminal call.  The calls for one file are StartFile once if the file
\* was admitted, none if it was cancelled in the select, and then exactly
\* one terminal call: CompleteFile with the issue count of the result, or
\* ErrorFile with the message of the error.  When ProcessFiles is over, a
\* file (of a list of distinct paths) has CompleteFile exactly if it is in
\* results and ErrorFile exactly if it is in errors, with that message.
C27_ProgressProtocol ==
    LET Start == <<"Start", Len(files)>>
        log(t) == tracker.file[t]
        StartFile(t) == <<"StartFile", files[t]>>
        CompleteFile(t) ==
            <<"CompleteFile", files[t], GetIssueCount(procRet[t].result)>>
        ErrorFile(t) == <<"ErrorFile", files[t], procRet[t].err.msg>>
        CancelFile(t, e) == <<"ErrorFile", files[t], CtxError(e).msg>>
        completed(t) == Len(log(t)) = 2 /\ log(t)[2][1] = "CompleteFile"
        failed(t) == log(t) # <<>> /\ log(t)[Len(log(t))][1] = "ErrorFile"
    IN /\ tracker.main \in {<<>>, <<Start>>, <<Start, <<"Finish">> >>}
       /\ tracker.main = <<>> => \A t \in Tasks : log(t) = <<>>
       /\ \A t \in Tasks \ FileTasks : log(t) = <<>>
       /\ Len(tracker.main) = 2 =>
              \A t \in FileTasks : completed(t) \/ failed(t)
       /\ \A t \in FileTasks :
              \/ log(t) = <<>>
                   /\ tpc[t] \in {"idle", "select", "cancelErrorFile", "startFile"}
              \/ log(t) = <<StartFile(t)>>
                   /\ tpc[t] \in {"diff", "doInflight", "doSleep", "procReturned"}
              \/ log(t) = <<StartFile(t), CompleteFile(t)>>
                   /\ procRet[t].err = NilErr
                   /\ tpc[t] \in {"writeResult", "release", "wgDone", "done"}
              \/ log(t) = <<StartFile(t), ErrorFile(t)>>
                   /\ procRet[t].err # NilErr
                   /\ tpc[t] \in {"writeError", "release", "wgDone", "done"}
              \/ procRet[t].none
                   /\ tpc[t] \in {"cancelWrite", "wgDone", "done"}
                   /\ \E e \in {"Canceled", "DeadlineExceeded"} :
                          log(t) = <<CancelFile(t, e)>>
       /\ (mainPc \in {"finish", "return", "returned"} /\ DistinctPaths) =>
              \A t \in FileTasks :
                 /\ completed(t) <=> ~results[files[t]].none
                 /\ failed(t) <=> ~errors[files[t]].none
                 /\ failed(t) =>
                        log(t)[Len(log(t))][3] = errors[files[t]].err.msg

\* a run has ended in which one file was admitted and completed (StartFile,
\* then CompleteFile with its issue count) and another was cancelled in the
\* select (ErrorFile alone), between Start and Finish
C27_Witness ==
    /\ mainPc = "returned"
    /\ tracker.main = << <<"Start", 2>>, <<"Finish">> >>
    /\ \E t, u \in FileTasks :
          /\ tracker.file[t] =
                 << <<"StartFile", files[t]>>, <<"CompleteFile", files[t], 1>> >>
          /\ Len(tracker.file[u]) = 1
          /\ tracker.file[u][1][1] = "ErrorFile"
          /\ ~results[files[t]].none
          /\ ~errors[files[u]].none

(***************************************************************************)
(* Properties of retry.Do: the jitter (SpecRetry).                          *)
(***************************************************************************)
RECURSIVE UnjitteredBase(_, _)
\* the delay before retry n as the backoff gives it when no jitter is
\* applied to any delay: InitialDelay, then the base before times
\* BackoffFactor, capped at MaxDelay
UnjitteredBase(n, opts) ==
    IF n = 1 THEN DoBackoff(0, 0, opts)
    ELSE DoBackoff(n - 1, UnjitteredBase(n - 1, opts), opts)

\* C29: the delay slept before retry n lies within JitterFactor of the base
\* of retry n, the base being computed from the bases before it and not
\* from the delays slept: (1 - JitterFactor) * base <= delay <=
\* (1 + JitterFactor) * base, the delay being a whole number of units.
\* (Stated for InitialDelay <= MaxDelay, where the first base is
\* InitialDelay.)
C29_JitterDoesNotCompound ==
    [][(DoSleeps /\ ropts.InitialDelay <= ropts.MaxDelay)
          => LET base == UnjitteredBase(rdo.attempt + 1, ropts)
                 jn == ropts.JitterFactor.num
                 jd == ropts.JitterFactor.den
             IN /\ rdo'.delay * jd <= (jd + jn) * base
                /\ (rdo'.delay + 1) * jd > (jd - jn) * base]_vars

====
